---- MODULE Spec2Model ----
(***************************************************************************)
(* Model of raspador/fields.py: the regular-expression field extractors.   *)
(*                                                                         *)
(* A Python value is a record [k |-> kind, s |-> characters or name,        *)
(* n |-> numbers, xs |-> elements].  A text is the sequence of its          *)
(* one-character strings, so that len(), indexing, strip() and the parsers *)
(* work on it character by character, as they do in Python.                *)
(***************************************************************************)
EXTENDS Integers, Sequences, FiniteSets, TLC

\* ---------------------------------------------------------------- bounds
MaxIndice == 2      \* largest group index a caller puts into grupos
MaxGrupos == 2      \* longest grupos list a caller passes
MaxChamadas == 2    \* parse_block calls made on one field

\* ---------------------------------------------------------- Python values
Val(k, s, n, xs) == [k |-> k, s |-> s, n |-> n, xs |-> xs]
None == Val("none", <<>>, <<>>, <<>>)
PyStr(s) == Val("str", s, <<>>, <<>>)
PyTuple(xs) == Val("tuple", <<>>, <<>>, xs)
PyList(xs) == Val("list", <<>>, <<>>, xs)
PyBool(b) == Val("bool", <<>>, <<IF b THEN 1 ELSE 0>>, <<>>)
PyInt(n) == Val("int", <<>>, <<n>>, <<>>)
PyFloat(n, d) == Val("float", <<>>, <<n, d>>, <<>>)
PyDate(y, m, d) == Val("date", <<>>, <<y, m, d>>, <<>>)
PyDateTime(y, m, d, hh, mm, ss) == Val("datetime", <<>>, <<y, m, d, hh, mm, ss>>, <<>>)
PyFunction(nome) == Val("function", <<nome>>, <<>>, <<>>)
PyMatch(grupos) == Val("match", <<>>, <<>>, grupos)
PyPattern(re) == Val("pattern", re, <<>>, <<>>)
Raise(e) == Val("raise", <<e>>, <<>>, <<>>)

IsRaise(x) == x.k = "raise"
IsSeq(x) == x.k \in {"tuple", "list"}

\* bool(x): Python truthiness
py_bool(x) ==
  CASE x.k = "none" -> FALSE
    [] x.k = "str" -> Len(x.s) > 0
    [] x.k \in {"tuple", "list"} -> Len(x.xs) > 0
    [] x.k \in {"bool", "int", "float"} -> x.n[1] # 0
    [] OTHER -> TRUE

\* isinstance(x, collections.Callable)
py_callable(x) == x.k = "function"

\* hasattr(x, '__iter__')
py_iterable(x) == x.k \in {"tuple", "list"}

\* len(x)
py_len(x) ==
  CASE x.k = "str" -> PyInt(Len(x.s))
    [] x.k \in {"tuple", "list"} -> PyInt(Len(x.xs))
    [] OTHER -> Raise("TypeError")

\* x[i] for 0 <= i < len(x): a character of a text, an element of a sequence
py_getitem(x, i) ==
  IF x.k = "str" THEN PyStr(<<x.s[i + 1]>>) ELSE x.xs[i + 1]

\* ------------------------------------------------------------------ texts
Digitos == <<"0", "1", "2", "3", "4", "5", "6", "7", "8", "9">>
IsDigit(c) == \E i \in 1..10 : Digitos[i] = c
DigitVal(c) == (CHOOSE i \in 1..10 : Digitos[i] = c) - 1
IsSpace(c) == c = " "

RECURSIVE AllDigits(_)
AllDigits(s) == s = <<>> \/ (IsDigit(Head(s)) /\ AllDigits(Tail(s)))

RECURSIVE DigitsVal(_, _)
DigitsVal(s, acc) ==
  IF s = <<>> THEN acc ELSE DigitsVal(Tail(s), acc * 10 + DigitVal(Head(s)))

RECURSIVE lstrip(_)
lstrip(s) == IF s # <<>> /\ IsSpace(Head(s)) THEN lstrip(Tail(s)) ELSE s

RECURSIVE rstrip(_)
rstrip(s) ==
  IF s # <<>> /\ IsSpace(s[Len(s)]) THEN rstrip(SubSeq(s, 1, Len(s) - 1)) ELSE s

\* s.strip()
strip(s) == rstrip(lstrip(s))

\* s.replace(a, b) for a one-character a and a text b
RECURSIVE replace(_, _, _)
replace(s, a, b) ==
  IF s = <<>> THEN <<>>
  ELSE (IF Head(s) = a THEN b ELSE <<Head(s)>>) \o replace(Tail(s), a, b)

\* position of the first c in s, 0 when there is none
RECURSIVE IndexOf(_, _, _)
IndexOf(s, c, i) ==
  IF i > Len(s) THEN 0 ELSE IF s[i] = c THEN i ELSE IndexOf(s, c, i + 1)

\* repr(x) of a text without quotes or backslashes, a tuple, a list or None
RECURSIVE py_repr(_)
RECURSIVE ReprItems(_)
ReprItems(xs) ==
  IF xs = <<>> THEN <<>>
  ELSE IF Len(xs) = 1 THEN py_repr(xs[1])
  ELSE py_repr(xs[1]) \o <<",", " ">> \o ReprItems(Tail(xs))
py_repr(x) ==
  CASE x.k = "str" -> <<"'">> \o x.s \o <<"'">>
    [] x.k = "list" -> <<"[">> \o ReprItems(x.xs) \o <<"]">>
    [] x.k = "tuple" ->
         <<"(">> \o ReprItems(x.xs) \o (IF Len(x.xs) = 1 THEN <<",">> ELSE <<>>) \o <<")">>
    [] x.k = "none" -> <<"N", "o", "n", "e">>

\* str(x)
py_str(x) == IF x.k = "str" THEN PyStr(x.s) ELSE PyStr(py_repr(x))

\* ---------------------------------------------------------------- parsers
\* int(s) of a text already stripped
IntDoTexto(t) ==
  IF t # <<>> /\ AllDigits(t) THEN PyInt(DigitsVal(t, 0)) ELSE Raise("ValueError")

\* int(x).  The texts of the model hold no sign, underscore or non-ASCII digit.
py_int(x) ==
  CASE x.k = "str" -> IntDoTexto(strip(x.s))
    [] x.k = "int" -> x
    [] x.k = "bool" -> PyInt(x.n[1])
    [] x.k = "float" -> PyInt(x.n[1] \div (10 ^ x.n[2]))
    [] OTHER -> Raise("TypeError")

\* a decimal n / 10^d without trailing zeros in the fraction
RECURSIVE Normal(_, _)
Normal(n, d) == IF d > 0 /\ n % 10 = 0 THEN Normal(n \div 10, d - 1) ELSE PyFloat(n, d)

\* the float with integer digits a and fraction digits b
FloatDasPartes(a, b) ==
  IF AllDigits(a) /\ AllDigits(b) /\ a \o b # <<>>
  THEN Normal(DigitsVal(a \o b, 0), Len(b))
  ELSE Raise("ValueError")

\* float(t) of a text already stripped, p the position of its first "."
FloatDoTexto(t, p) ==
  IF p = 0 THEN FloatDasPartes(t, <<>>)
  ELSE FloatDasPartes(SubSeq(t, 1, p - 1), SubSeq(t, p + 1, Len(t)))

\* float(s) of a text; the texts of the model hold no sign, exponent, inf or nan
py_float(s) == FloatDoTexto(strip(s), IndexOf(strip(s), ".", 1))

\* the number a strptime directive reads at the head of s: <<width, value>>,
\* width 0 when the directive does not match
TwoDigits(s, lo, hi) ==
  /\ Len(s) >= 2 /\ IsDigit(s[1]) /\ IsDigit(s[2])
  /\ DigitsVal(SubSeq(s, 1, 2), 0) \in lo..hi
\* <<least, greatest two-digit value, least one-digit value>> of a directive
Faixa(c) ==
  CASE c = "d" -> <<1, 31, 1>>
    [] c = "m" -> <<1, 12, 1>>
    [] c = "H" -> <<0, 23, 0>>
    [] c = "M" -> <<0, 59, 0>>
    [] c = "S" -> <<0, 61, 0>>
Directive(c, s) ==
  IF c = "Y"
  THEN (IF Len(s) >= 4 /\ AllDigits(SubSeq(s, 1, 4))
        THEN <<4, DigitsVal(SubSeq(s, 1, 4), 0)>> ELSE <<0, 0>>)
  ELSE IF c \in {"d", "m", "H", "M", "S"}
  THEN IF TwoDigits(s, Faixa(c)[1], Faixa(c)[2]) THEN <<2, DigitsVal(SubSeq(s, 1, 2), 0)>>
       ELSE IF Len(s) >= 1 /\ IsDigit(s[1]) /\ DigitVal(s[1]) >= Faixa(c)[3]
         THEN <<1, DigitVal(s[1])>>
       ELSE IF c = "d" /\ Len(s) >= 2 /\ s[1] = " " /\ IsDigit(s[2]) /\ s[2] # "0"
         THEN <<2, DigitVal(s[2])>>
       ELSE <<0, 0>>
  ELSE <<0, 0>>

\* the state of strptime after directive c read r = <<width, value>>
Lido(s, f, acc, c, r) ==
  [ok |-> r[1] > 0, s |-> SubSeq(s, r[1] + 1, Len(s)), f |-> SubSeq(f, 3, Len(f)),
   acc |-> [acc EXCEPT ![c] = r[2]]]

\* one step of strptime over text s and format f: a directive, a run of
\* blanks or a literal character is read; ok is FALSE on mismatch
Passo(s, f, acc) ==
  IF Head(f) = "%" /\ Len(f) >= 2 THEN Lido(s, f, acc, f[2], Directive(f[2], s))
  ELSE IF IsSpace(Head(f))
  THEN [ok |-> s # <<>> /\ IsSpace(Head(s)), s |-> lstrip(s), f |-> Tail(f), acc |-> acc]
  ELSE [ok |-> s # <<>> /\ Head(s) = Head(f), s |-> IF s = <<>> THEN s ELSE Tail(s),
        f |-> Tail(f), acc |-> acc]

\* the fields strptime reads from s under format f; ok is FALSE on mismatch.
\* Directives are separated by literal characters in every format of the model.
RECURSIVE Scan(_, _, _)
RECURSIVE Seguir(_)
Seguir(p) == IF p.ok THEN Scan(p.s, p.f, p.acc) ELSE [p.acc EXCEPT !.ok = FALSE]
Scan(s, f, acc) ==
  IF f = <<>> THEN [acc EXCEPT !.ok = (s = <<>>)] ELSE Seguir(Passo(s, f, acc))

IsLeap(y) == y % 4 = 0 /\ (y % 100 # 0 \/ y % 400 = 0)
DaysInMonth(y, m) ==
  IF m = 2 THEN (IF IsLeap(y) THEN 29 ELSE 28)
  ELSE IF m \in {4, 6, 9, 11} THEN 30 ELSE 31

\* the datetime of the fields read, ValueError when the text did not match
\* or the fields are no date
DataValida(r) ==
  IF r.ok /\ r.Y >= 1 /\ r.d <= DaysInMonth(r.Y, r.m) /\ r.S <= 59
  THEN PyDateTime(r.Y, r.m, r.d, r.H, r.M, r.S)
  ELSE Raise("ValueError")

\* datetime.strptime(valor, formato)
strptime(valor, formato) ==
  IF valor.k # "str" THEN Raise("TypeError")
  ELSE DataValida(Scan(valor.s, formato,
                       [ok |-> TRUE, Y |-> 1900, m |-> 1, d |-> 1, H |-> 0, M |-> 0, S |-> 0]))

\* datetime.date()
date(dt) == PyDate(dt.n[1], dt.n[2], dt.n[3])

\* ------------------------------------------------- the regular expressions
\* The patterns the fields of the model are built with, as texts.
RE_UM == <<"(", ".", "+", ")">>
RE_PAR == <<"(", "[", "0", "-", "9", "]", "+", ")", "/",
            "(", "[", "0", "-", "9", "]", "+", ")">>
RE_OK == <<"^", "O", "K", "$">>
RE_OPC == <<"^", "(", "O", "K", ")", "?">>
RE_OS == <<"^", "(", "O", "*", ")">>

\* pattern.groups: the number of capture groups
NGrupos(re) ==
  CASE re = RE_PAR -> 2
    [] re \in {RE_UM, RE_OPC, RE_OS} -> 1
    [] OTHER -> 0

OK == <<"O", "K">>
StartsWithOK(s) == Len(s) >= 2 /\ SubSeq(s, 1, 2) = OK

\* the longest run of "O" at the start of s
RECURSIVE LeadingOs(_)
LeadingOs(s) == IF s # <<>> /\ Head(s) = "O" THEN <<"O">> \o LeadingOs(Tail(s)) ELSE <<>>

\* first position at or after i that holds no digit
RECURSIVE RunEnd(_, _)
RunEnd(s, i) == IF i <= Len(s) /\ IsDigit(s[i]) THEN RunEnd(s, i + 1) ELSE i

\* ([0-9]+)/([0-9]+) tried at position i
ParAt(s, i) ==
  LET j == RunEnd(s, i)
      n == IF j > i /\ j <= Len(s) /\ s[j] = "/" THEN RunEnd(s, j + 1) ELSE 0
  IN IF n > j + 1
     THEN [ok |-> TRUE, fim |-> n,
           grupos |-> <<PyStr(SubSeq(s, i, j - 1)), PyStr(SubSeq(s, j + 1, n - 1))>>]
     ELSE [ok |-> FALSE, fim |-> i, grupos |-> <<>>]

\* the non-overlapping occurrences of ([0-9]+)/([0-9]+) from position i on
RECURSIVE Pares(_, _)
Pares(s, i) ==
  IF i > Len(s) THEN <<>>
  ELSE LET r == ParAt(s, i)
       IN IF r.ok THEN <<PyTuple(r.grupos)>> \o Pares(s, r.fim) ELSE Pares(s, i + 1)

\* pattern.findall(linha): the list of occurrences; a text per occurrence for a
\* pattern of at most one group ('' for a group that did not take part), the
\* tuple of groups otherwise
findall(re, linha) ==
  CASE re = RE_UM -> IF linha = <<>> THEN PyList(<<>>) ELSE PyList(<<PyStr(linha)>>)
    [] re = RE_PAR -> PyList(Pares(linha, 1))
    [] re = RE_OK -> IF linha = OK THEN PyList(<<PyStr(OK)>>) ELSE PyList(<<>>)
    [] re = RE_OPC -> IF StartsWithOK(linha) THEN PyList(<<PyStr(OK)>>)
                      ELSE PyList(<<PyStr(<<>>)>>)
    [] re = RE_OS -> PyList(<<PyStr(LeadingOs(linha))>>)

\* pattern.match(linha): the match at the start of the line, or None; a group
\* that did not take part is None in groups()
match(re, linha) ==
  CASE re = RE_UM -> IF linha = <<>> THEN None ELSE PyMatch(<<PyStr(linha)>>)
    [] re = RE_PAR -> LET r == ParAt(linha, 1) IN IF r.ok THEN PyMatch(r.grupos) ELSE None
    [] re = RE_OK -> IF linha = OK THEN PyMatch(<<>>) ELSE None
    [] re = RE_OPC -> IF StartsWithOK(linha) THEN PyMatch(<<PyStr(OK)>>)
                      ELSE PyMatch(<<None>>)
    [] re = RE_OS -> PyMatch(<<PyStr(LeadingOs(linha))>>)

\* match.groups()
groups(m) == PyTuple(m.xs)

\* ------------------------------------------------------------- the fields
Absent == Val("absent", <<>>, <<>>, <<>>)     \* a keyword argument not passed
Unset == Val("unset", <<>>, <<>>, <<>>)       \* an attribute the class does not set

\* kwargs.get(nome, padrao)
kwget(kwargs, nome, padrao) == IF kwargs[nome] = Absent THEN padrao ELSE kwargs[nome]

\* the mascara setter
mascara_setter(valor) == IF py_bool(valor) THEN PyPattern(valor.s) ELSE None

\* _iniciar: the initialisation hook of the class
BaseField_iniciar(self) == self
BooleanField_iniciar_nada(self) == self
BooleanField_iniciar(self) == [self EXCEPT !.default = PyBool(FALSE)]
iniciar(self) ==
  IF self.cls = "BooleanField" THEN BooleanField_iniciar(self) ELSE BaseField_iniciar(self)

\* the callback check of __init__: TRUE when construction is refused
CallbackRecusado(ao_atribuir) == py_bool(ao_atribuir) /\ ~py_callable(ao_atribuir)

\* BaseField.__init__: the field, or the exception raised
BaseField_init(cls, mascara, kwargs) ==
  LET grupos == kwget(kwargs, "grupos", PyList(<<>>))
      self == [k |-> "field", cls |-> cls,
               default |-> kwget(kwargs, "default", None),
               lista |-> kwget(kwargs, "lista", PyBool(FALSE)),
               mascara |-> mascara_setter(mascara),
               ao_atribuir |-> kwget(kwargs, "ao_atribuir", None),
               grupos |-> IF ~py_iterable(grupos) THEN PyTuple(<<grupos>>) ELSE grupos,
               formato |-> Unset]
  IN IF CallbackRecusado(self.ao_atribuir) THEN Raise("TypeError") ELSE iniciar(self)

FORMATO_DATA == <<"%", "d", "/", "%", "m", "/", "%", "Y">>
FORMATO_DATA_HORA == FORMATO_DATA \o <<" ", "%", "H", ":", "%", "M", ":", "%", "S">>

\* DateField.__init__ and DateTimeField.__init__
DateField_init(cls, mascara, kwargs) ==
  LET self == BaseField_init(cls, mascara, kwargs)
  IN IF IsRaise(self) THEN self
     ELSE [self EXCEPT !.formato = kwget(kwargs, "formato", PyStr(FORMATO_DATA))]
DateTimeField_init(cls, mascara, kwargs) ==
  LET self == BaseField_init(cls, mascara, kwargs)
  IN IF IsRaise(self) THEN self
     ELSE [self EXCEPT !.formato = kwget(kwargs, "formato", PyStr(FORMATO_DATA_HORA))]

\* cls(mascara, **kwargs)
Construir(cls, mascara, kwargs) ==
  CASE cls = "DateField" -> DateField_init(cls, mascara, kwargs)
    [] cls = "DateTimeField" -> DateTimeField_init(cls, mascara, kwargs)
    [] OTHER -> BaseField_init(cls, mascara, kwargs)

\* ------------------------------------------------------------ extraction
\* _metodo_busca applied to the line: findall, or match for BooleanField; None
\* has neither method
BaseField_metodo_busca(self, linha) ==
  IF self.mascara = None THEN Raise("AttributeError") ELSE findall(self.mascara.s, linha)
BooleanField_metodo_busca(self, linha) ==
  IF self.mascara = None THEN Raise("AttributeError") ELSE match(self.mascara.s, linha)
metodo_busca(self, linha) ==
  IF self.cls = "BooleanField" THEN BooleanField_metodo_busca(self, linha)
  ELSE BaseField_metodo_busca(self, linha)

\* _resultado_valido: the value whose truth decides whether the line counts
BaseField_resultado_valido(valor) == PyBool(py_bool(valor))
BooleanField_resultado_valido(valor) == IF py_bool(valor) THEN groups(valor) ELSE valor
resultado_valido(self, valor) ==
  IF self.cls = "BooleanField" THEN BooleanField_resultado_valido(valor)
  ELSE BaseField_resultado_valido(valor)

\* a selection that keeps a place (None) for an index out of range
RECURSIVE Selecionar_sem_descartar(_, _, _)
Selecionar_sem_descartar(valor, grupos, tamanho) ==
  IF grupos = <<>> THEN <<>>
  ELSE (IF Head(grupos).n[1] < tamanho
        THEN <<py_getitem(valor, Head(grupos).n[1])>> ELSE <<None>>)
       \o Selecionar_sem_descartar(valor, Tail(grupos), tamanho)

\* [valor[i] for i in grupos if i < tamanho]
RECURSIVE Selecionar(_, _, _)
Selecionar(valor, grupos, tamanho) ==
  IF grupos = <<>> THEN <<>>
  ELSE (IF Head(grupos).n[1] < tamanho
        THEN <<py_getitem(valor, Head(grupos).n[1])>> ELSE <<>>)
       \o Selecionar(valor, Tail(grupos), tamanho)

\* the singleton collapse: valor[0] when len(valor) == 1
Colapsar(valor) ==
  IF IsRaise(py_len(valor)) THEN py_len(valor)
  ELSE IF py_len(valor).n[1] = 1 THEN py_getitem(valor, 0) ELSE valor

\* the selection of _converter on the collapsed value: len() raises on None
Escolher(self, um) ==
  IF IsRaise(py_len(um)) THEN py_len(um)
  ELSE PyList(Selecionar(um, self.grupos.xs, py_len(um).n[1]))

\* the last collapse of _converter
ColapsarEscolhido(escolhido) ==
  IF IsRaise(escolhido) THEN escolhido ELSE Colapsar(escolhido)

\* BaseField._converter
BaseField_converter(self, valor) ==
  IF py_bool(self.grupos) THEN ColapsarEscolhido(Escolher(self, Colapsar(valor)))
  ELSE Colapsar(valor)

\* BooleanField._converter
BooleanField_converter(self, valor) ==
  BaseField_converter(self, IF py_bool(valor) THEN groups(valor) ELSE PyBool(FALSE))

converter(self, valor) ==
  IF self.cls = "BooleanField" THEN BooleanField_converter(self, valor)
  ELSE BaseField_converter(self, valor)

\* to_python of each class
BaseField_to_python(valor) == valor
StringField_to_python(valor) == PyStr(strip(py_str(valor).s))
FloatField_to_python(valor) ==
  IF valor.k # "str" THEN Raise("AttributeError")
  ELSE py_float(replace(replace(valor.s, ".", <<>>), ",", <<".">>))
IntegerField_to_python(valor) == py_int(valor)
BooleanField_to_python_sempre(valor) == PyBool(TRUE)
BooleanField_to_python(valor) == PyBool(py_bool(valor))
DataDe(r) == IF IsRaise(r) THEN r ELSE date(r)
DateField_to_python(self, valor) == DataDe(strptime(valor, self.formato.s))
DateTimeField_to_python(self, valor) == strptime(valor, self.formato.s)

to_python(self, valor) ==
  CASE self.cls = "StringField" -> StringField_to_python(valor)
    [] self.cls = "FloatField" -> FloatField_to_python(valor)
    [] self.cls = "IntegerField" -> IntegerField_to_python(valor)
    [] self.cls = "BooleanField" -> BooleanField_to_python(valor)
    [] self.cls = "DateField" -> DateField_to_python(self, valor)
    [] self.cls = "DateTimeField" -> DateTimeField_to_python(self, valor)
    [] OTHER -> BaseField_to_python(valor)

\* the callbacks a caller passes as ao_atribuir: dobro of the class docstring,
\* and a callback that returns nothing
Dobrar(n) == IF IsRaise(n) THEN n ELSE PyInt(n.n[1] * 2)
dobro(valor) == Dobrar(py_int(valor))
Chamar(f, valor) == IF f.s[1] = "dobro" THEN dobro(valor) ELSE None

\* a wrapping that wraps whatever the value is
Embrulhar_tudo(self, valor) ==
  IF valor # None /\ py_bool(self.lista) THEN PyList(<<valor>>) ELSE valor
\* a wrapping that takes a falsy value for no value
Embrulhar_falso(self, valor) ==
  IF ~py_bool(valor) THEN None
  ELSE IF py_bool(self.lista) /\ valor.k # "list" THEN PyList(<<valor>>) ELSE valor

\* the list wrapping at the end of parse_block
Embrulhar(self, valor) ==
  IF valor # None /\ py_bool(self.lista) /\ valor.k # "list" THEN PyList(<<valor>>) ELSE valor

\* a parse_block that uses up the group selection of the field
parse_block_self_consome(self, linha) == [self EXCEPT !.grupos = PyList(<<>>)]

\* the field after parse_block: the method assigns no attribute
parse_block_self(self, linha) == self

\* a guard that lets every field through
TemMascara_sempre(self) == TRUE

\* the guard of parse_block: a pattern is configured
TemMascara(self) == py_bool(self.mascara)

\* What a parse_block call did: the value returned (None when the method falls
\* off its end, the exception when one propagates), the steps it ran, and the
\* values that passed between them (Unset for a step that did not run or did
\* not return)
Fim(ret, passos, bruto, escolhido, convertido, atribuido) ==
  [ret |-> ret, passos |-> passos, bruto |-> bruto, escolhido |-> escolhido,
   convertido |-> convertido, atribuido |-> atribuido]

\* parse_block from the callback on: a is what the callback returned, or the
\* converted value when no callback is configured
AposCallback(self, linha, bruto, c, p, a) ==
  Fim(IF IsRaise(a) THEN a ELSE Embrulhar(self, a),
      <<"_metodo_busca", "_resultado_valido", "_converter", "to_python">>
      \o (IF py_bool(self.ao_atribuir) THEN <<"ao_atribuir">> ELSE <<>>),
      bruto, c, p, IF IsRaise(a) THEN Unset ELSE a)

\* parse_block after to_python returned or raised p
AposToPython(self, linha, bruto, c, p) ==
  IF IsRaise(p)
  THEN Fim(p, <<"_metodo_busca", "_resultado_valido", "_converter", "to_python">>,
           bruto, c, Unset, Unset)
  ELSE AposCallback(self, linha, bruto, c, p,
                    IF py_bool(self.ao_atribuir) THEN Chamar(self.ao_atribuir, p) ELSE p)

\* parse_block after _converter returned or raised c
AposConverter(self, linha, bruto, c) ==
  IF IsRaise(c)
  THEN Fim(c, <<"_metodo_busca", "_resultado_valido", "_converter">>,
           bruto, Unset, Unset, Unset)
  ELSE AposToPython(self, linha, bruto, c, to_python(self, c))

\* parse_block after the search returned or raised bruto
AposBusca(self, linha, bruto) ==
  IF IsRaise(bruto)
  THEN Fim(bruto, <<"_metodo_busca">>, Unset, Unset, Unset, Unset)
  ELSE IF ~py_bool(resultado_valido(self, bruto))
  THEN Fim(None, <<"_metodo_busca", "_resultado_valido">>,
           bruto, Unset, Unset, Unset)
  ELSE AposConverter(self, linha, bruto, converter(self, bruto))

\* parse_block
parse_block(self, linha) ==
  IF ~TemMascara(self) THEN Fim(None, <<>>, Unset, Unset, Unset, Unset)
  ELSE AposBusca(self, linha, metodo_busca(self, linha))

\* ------------------------------------------------------ the state machine
VARIABLES
  args,     \* the arguments of the constructor call
  campo,    \* the field object; Unset before construction, the exception when
            \* the constructor raised
  linha,    \* the line of the last parse_block call
  res,      \* what the last parse_block call did and returned
  chamadas  \* the number of parse_block calls made on the field

vars == <<args, campo, linha, res, chamadas>>

\* what callers pass
Classes == {"BaseField", "StringField", "FloatField", "IntegerField",
            "BooleanField", "DateField", "DateTimeField"}
Mascaras == {None, PyStr(<<>>), PyStr(RE_UM), PyStr(RE_PAR), PyStr(RE_OK),
             PyStr(RE_OPC), PyStr(RE_OS)}
Defaults == {Absent, PyBool(TRUE), PyInt(0)}
Listas == {Absent, PyBool(TRUE)}
Callbacks == {Absent, PyFunction("dobro"), PyFunction("nenhum"),
              PyInt(0), PyStr(<<>>), PyList(<<>>), PyStr(OK)}
Indices == 0..MaxIndice
ListasDeIndices ==
  {g \in UNION {[1..n -> Indices] : n \in 1..MaxGrupos} :
     \A i, j \in DOMAIN g : i # j => g[i] # g[j]}
Grupos ==
  {Absent} \cup {PyInt(i) : i \in Indices}
  \cup {PyList([n \in DOMAIN g |-> PyInt(g[n])]) : g \in ListasDeIndices}
Formatos(cls) ==
  IF cls \in {"DateField", "DateTimeField"} THEN {Absent, PyStr(FORMATO_DATA)} ELSE {Absent}
Linhas == {<<" ", "0", " ">>, OK, <<"1", "/", "2">>,
           <<"1", "/", "2", " ", "3", "/", "4">>, <<"1", ".", "0", ",", "5">>,
           <<"0", "2", "/", "0", "1", "/", "2", "0", "1", "3">>}

SemResultado ==
  [ret |-> Unset, passos |-> <<>>,
   bruto |-> Unset, escolhido |-> Unset, convertido |-> Unset, atribuido |-> Unset]

Init ==
  /\ args = Unset
  /\ campo = Unset
  /\ linha = Unset
  /\ res = SemResultado
  /\ chamadas = 0

\* campo = cls(mascara, **kwargs)
Novo ==
  /\ campo = Unset
  /\ \E cls \in Classes, mascara \in Mascaras, default \in Defaults, lista \in Listas,
        ao_atribuir \in Callbacks, grupos \in Grupos :
       \E formato \in Formatos(cls) :
         LET kwargs == [default |-> default, lista |-> lista, ao_atribuir |-> ao_atribuir,
                        grupos |-> grupos, formato |-> formato]
         IN /\ args' = [cls |-> cls, mascara |-> mascara, kwargs |-> kwargs]
            /\ campo' = Construir(cls, mascara, kwargs)
  /\ UNCHANGED <<linha, res, chamadas>>

\* campo.parse_block(l)
ParseBlock ==
  /\ campo # Unset
  /\ ~IsRaise(campo)
  /\ chamadas < MaxChamadas
  /\ chamadas' = chamadas + 1
  /\ \E l \in Linhas :
       /\ linha' = PyStr(l)
       /\ res' = parse_block(campo, l)
       /\ campo' = parse_block_self(campo, l)
  /\ UNCHANGED args

Next == Novo \/ ParseBlock

Spec == Init /\ [][Next]_vars

\* ------------------------------------------------------------ properties
Construido == campo.k = "field"
Chamado == chamadas > 0
Correu(passo) == \E i \in DOMAIN res.passos : res.passos[i] = passo
TodosTexto(xs) == \A i \in DOMAIN xs : xs[i].k = "str"

\* the captured groups of the single match of the last call, <<>> when the
\* line did not match exactly once with two or more groups
GruposDoMatch ==
  IF res.bruto.k = "match" THEN res.bruto.xs
  ELSE IF res.bruto.k = "list" /\ Len(res.bruto.xs) = 1 /\ res.bruto.xs[1].k = "tuple"
       THEN res.bruto.xs[1].xs
  ELSE <<>>

\* the indices of grupos that are below n, in the order of grupos
Dentro(grupos, n) == LET cabe(i) == i.n[1] < n IN SelectSeq(grupos, cabe)

\* C1 as stated: in list mode a scalar is wrapped into a one-element list and
\* a value that is already a sequence (list or tuple) is returned unchanged.
C1_Caso ==
  /\ Chamado
  /\ py_bool(campo.lista)
  /\ res.atribuido # Unset
  /\ res.atribuido # None
C1_NuncaAninha ==
  C1_Caso =>
    IF IsSeq(res.atribuido) THEN res.ret = res.atribuido
    ELSE res.ret = PyList(<<res.atribuido>>)

\* C1 amended: in list mode a value that is a list is returned unchanged and
\* every other value, the tuple of groups of a single match included, is
\* wrapped into a one-element list; with a BaseField without callback, a
\* non-empty grupos over a single match of several groups gives a flat result
\* and an empty grupos gives the list that holds the tuple of groups.
C1_SoListaPassa ==
  C1_Caso =>
    /\ IF res.atribuido.k = "list" THEN res.ret = res.atribuido
       ELSE res.ret = PyList(<<res.atribuido>>)
    /\ (campo.cls = "BaseField" /\ ~py_bool(campo.ao_atribuir) /\ Len(GruposDoMatch) >= 2) =>
         IF py_bool(campo.grupos)
         THEN res.ret.k = "list" /\ TodosTexto(res.ret.xs)
         ELSE res.ret = PyList(<<PyTuple(GruposDoMatch)>>)
C1_Witness ==
  /\ C1_Caso
  /\ py_bool(campo.grupos)
  /\ Len(GruposDoMatch) >= 2
  /\ res.atribuido.k = "list"
  /\ Len(res.atribuido.xs) >= 2
  /\ res.ret = res.atribuido

\* C2 as stated: whenever BooleanField reaches to_python, the converted value
\* is true.
C2_Caso ==
  /\ Chamado
  /\ campo.cls = "BooleanField"
  /\ res.convertido # Unset
C2_SempreVerdadeiro == C2_Caso => res.convertido = PyBool(TRUE)

\* the truth of what the group selector hands over, from the groups g of the
\* match and the selection grupos
VerdadeDaSelecao(grupos, g) ==
  LET n == Len(g)
      tamanho == IF n = 1 THEN Len(g[1].s) ELSE n
      dentro == Dentro(grupos, tamanho)
  IN IF grupos = <<>> THEN (IF n = 1 THEN py_bool(g[1]) ELSE TRUE)
     ELSE IF Len(dentro) = 0 THEN FALSE
     ELSE IF Len(dentro) = 1 /\ n > 1 THEN py_bool(g[dentro[1].n[1] + 1])
     ELSE TRUE

\* C2 amended: whenever BooleanField reaches to_python, the converted value is
\* the truth value of the selected data: false when the only group captured
\* the empty string or did not take part, when every index of grupos is out
\* of range, or when the one group selected is empty; true otherwise.
C2_VerdadeDoSelecionado ==
  C2_Caso => res.convertido = PyBool(VerdadeDaSelecao(campo.grupos.xs, res.bruto.xs))
C2_Witness ==
  /\ C2_Caso
  /\ ~py_bool(campo.grupos)
  /\ res.bruto.xs = <<PyStr(<<>>)>>
  /\ res.convertido = PyBool(FALSE)

\* C3: StringField, IntegerField and FloatField convert a sequence of texts
\* element by element and return the sequence of the converted elements.
C3_Caso ==
  /\ Chamado
  /\ campo.cls \in {"StringField", "IntegerField", "FloatField"}
  /\ res.escolhido # Unset
  /\ IsSeq(res.escolhido)
  /\ TodosTexto(res.escolhido.xs)
  /\ \A i \in DOMAIN res.escolhido.xs : ~IsRaise(to_python(campo, res.escolhido.xs[i]))
C3_ElementoAElemento ==
  C3_Caso =>
    /\ res.convertido # Unset
    /\ IsSeq(res.convertido)
    /\ Len(res.convertido.xs) = Len(res.escolhido.xs)
    /\ \A i \in DOMAIN res.escolhido.xs :
         res.convertido.xs[i] = to_python(campo, res.escolhido.xs[i])

\* C4: the constructor raises for every ao_atribuir that is passed and is not
\* callable, the falsy ones included.
C4_NaoChamavelRecusado ==
  (/\ args # Unset
   /\ args.kwargs.ao_atribuir # Absent
   /\ ~py_callable(args.kwargs.ao_atribuir)) => IsRaise(campo)

\* C5: a pattern of exactly one group that matches once, on a BaseField without
\* lista and without callback, gives the captured group itself, whatever
\* grupos is.
C5_Caso ==
  /\ Chamado
  /\ campo.cls = "BaseField"
  /\ ~py_bool(campo.lista)
  /\ args.kwargs.ao_atribuir = Absent
  /\ campo.mascara # None
  /\ NGrupos(campo.mascara.s) = 1
  /\ Len(res.bruto.xs) = 1
C5_Escalar == C5_Caso => res.ret = res.bruto.xs[1]

\* what the group selector is to return for the groups g of a single match
Esperado(grupos, g) ==
  IF grupos = <<>> THEN PyTuple(g)
  ELSE LET dentro == Dentro(grupos, Len(g))
           sel == [j \in 1..Len(dentro) |-> g[dentro[j].n[1] + 1]]
       IN IF Len(sel) = 1 THEN sel[1] ELSE PyList(sel)

\* C6: for a single match of two or more groups, _converter raises nothing and
\* returns the groups at the indices of grupos that are in range, in the order
\* of grupos, the one group itself when exactly one remains (all the groups
\* when grupos is empty).
C6_Caso ==
  /\ Chamado
  /\ Correu("_converter")
  /\ Len(GruposDoMatch) >= 2
C6_ForaDeFaixaDescartado ==
  C6_Caso => res.escolhido = Esperado(campo.grupos.xs, GruposDoMatch)
C6_Witness ==
  /\ C6_Caso
  /\ \E i \in DOMAIN campo.grupos.xs : campo.grupos.xs[i].n[1] >= Len(GruposDoMatch)
  /\ \E i \in DOMAIN campo.grupos.xs : campo.grupos.xs[i].n[1] < Len(GruposDoMatch)
  /\ res.escolhido.k = "str"

\* C7: a field built without a pattern returns None for every line and runs
\* neither the search, the converter nor the callback.
C7_SemMascara ==
  (Chamado /\ args.mascara = None) => (res.ret = None /\ res.passos = <<>>)
C7_Witness ==
  /\ Chamado
  /\ args.mascara = None
  /\ py_bool(campo.lista)
  /\ py_callable(campo.ao_atribuir)
  /\ py_bool(campo.grupos)
  /\ res.ret = None

\* C8 as stated: when a pattern is configured, the line is valid and the
\* conversion succeeds, parse_block returns a value, never None.
C8_Caso ==
  /\ Chamado
  /\ res.convertido # Unset
  /\ ~IsRaise(res.ret)
C8_SemprePresente == C8_Caso => res.ret # None

\* C8 amended: in that case parse_block returns None exactly when a callback
\* ran and returned None; without a callback the value is present, a falsy
\* one (0, the empty text) included.
C8_AusenteSoPeloCallback ==
  C8_Caso =>
    /\ res.ret = None <=> (Correu("ao_atribuir") /\ res.atribuido = None)
    /\ ~Correu("ao_atribuir") =>
         (IF py_bool(campo.lista) /\ res.convertido.k # "list"
          THEN res.ret = PyList(<<res.convertido>>) ELSE res.ret = res.convertido)
C8_Witness ==
  /\ C8_Caso
  /\ ~Correu("ao_atribuir")
  /\ res.ret \in {PyInt(0), PyStr(<<>>)}

C10_Default ==
  Construido =>
    campo.default = IF campo.cls = "BooleanField" THEN PyBool(FALSE)
                    ELSE IF args.kwargs.default = Absent THEN None
                    ELSE args.kwargs.default
C10_Witness ==
  /\ Construido
  /\ campo.cls = "BooleanField"
  /\ args.kwargs.default = PyBool(TRUE)
  /\ campo.default = PyBool(FALSE)

====
